---- MODULE Spec2Model ----
(***************************************************************************)
(* BoardHub: the access-control and ordering core of the REST backend.     *)
(* The persistent store (boards, board members, lists, cards) is the       *)
(* state; every route handler is an action.                                *)
(***************************************************************************)
EXTENDS Integers, FiniteSets, Sequences, TLC

VARIABLES boards, members, lists, cards, nextList, nextCard, reqs

vars == <<boards, members, lists, cards, nextList, nextCard, reqs>>
store == <<boards, members, lists, cards, nextList, nextCard>>

(***************************************************************************)
(* Bounds of the model.                                                    *)
(***************************************************************************)
Users == {"u1", "u2", "u3"}
BoardIds == {"b1", "b2"}
\* user ids are interchangeable: the first board is u1's
Creators == {"u1"}
\* Spec follows every membership of one board next to one list and one card
SpecLists == {1}
SpecCards == {1}
\* the positions its reorder and move requests ask for
SpecOrders == {1}
SpecMoveOrders == {<<>>, <<1>>}

\* lists / cards ever created in the ordering specifications
MaxSeqLists == 3
MaxSeqCards == 2
\* the positions a reorder request asks for in SpecSeq
ReorderOrders == {1, 2, 3}
\* requests in flight at once (SpecConc)
MaxReqs == 2

InviteRoles == {"admin", "editor", "viewer"}


(***************************************************************************)
(* models/BoardMember.js                                                   *)
(***************************************************************************)
\* the schema defaults of the permissions sub-document
DefaultPermissions ==
  [canEditBoard |-> FALSE, canDeleteBoard |-> FALSE,
   canInviteMembers |-> FALSE, canRemoveMembers |-> FALSE,
   canCreateLists |-> TRUE, canEditLists |-> TRUE, canDeleteLists |-> FALSE,
   canCreateCards |-> TRUE, canEditCards |-> TRUE, canDeleteCards |-> FALSE,
   canMoveCards |-> TRUE, canComment |-> TRUE]

\* case 'owner' of the save hook
OwnerPermissions ==
  [canEditBoard |-> TRUE, canDeleteBoard |-> TRUE,
   canInviteMembers |-> TRUE, canRemoveMembers |-> TRUE,
   canCreateLists |-> TRUE, canEditLists |-> TRUE, canDeleteLists |-> TRUE,
   canCreateCards |-> TRUE, canEditCards |-> TRUE, canDeleteCards |-> TRUE,
   canMoveCards |-> TRUE, canComment |-> TRUE]

\* an admin case that also grants canDeleteBoard
AdminPermissionsDeleteBoard ==
  [canEditBoard |-> TRUE, canDeleteBoard |-> TRUE,
   canInviteMembers |-> TRUE, canRemoveMembers |-> TRUE,
   canCreateLists |-> TRUE, canEditLists |-> TRUE, canDeleteLists |-> TRUE,
   canCreateCards |-> TRUE, canEditCards |-> TRUE, canDeleteCards |-> TRUE,
   canMoveCards |-> TRUE, canComment |-> TRUE]

\* case 'admin' of the save hook
AdminPermissions ==
  [canEditBoard |-> TRUE, canDeleteBoard |-> FALSE,
   canInviteMembers |-> TRUE, canRemoveMembers |-> TRUE,
   canCreateLists |-> TRUE, canEditLists |-> TRUE, canDeleteLists |-> TRUE,
   canCreateCards |-> TRUE, canEditCards |-> TRUE, canDeleteCards |-> TRUE,
   canMoveCards |-> TRUE, canComment |-> TRUE]

\* an editor case that also grants canDeleteCards
EditorPermissionsDeleteCards ==
  [canEditBoard |-> FALSE, canDeleteBoard |-> FALSE,
   canInviteMembers |-> FALSE, canRemoveMembers |-> FALSE,
   canCreateLists |-> TRUE, canEditLists |-> TRUE, canDeleteLists |-> FALSE,
   canCreateCards |-> TRUE, canEditCards |-> TRUE, canDeleteCards |-> TRUE,
   canMoveCards |-> TRUE, canComment |-> TRUE]

\* case 'editor' of the save hook
EditorPermissions ==
  [canEditBoard |-> FALSE, canDeleteBoard |-> FALSE,
   canInviteMembers |-> FALSE, canRemoveMembers |-> FALSE,
   canCreateLists |-> TRUE, canEditLists |-> TRUE, canDeleteLists |-> FALSE,
   canCreateCards |-> TRUE, canEditCards |-> TRUE, canDeleteCards |-> FALSE,
   canMoveCards |-> TRUE, canComment |-> TRUE]

\* case 'viewer' of the save hook
ViewerPermissions ==
  [canEditBoard |-> FALSE, canDeleteBoard |-> FALSE,
   canInviteMembers |-> FALSE, canRemoveMembers |-> FALSE,
   canCreateLists |-> FALSE, canEditLists |-> FALSE, canDeleteLists |-> FALSE,
   canCreateCards |-> FALSE, canEditCards |-> FALSE, canDeleteCards |-> FALSE,
   canMoveCards |-> FALSE, canComment |-> FALSE]

\* role: { enum: ['owner', 'admin', 'editor', 'viewer'] }: a document with
\* another role fails validation and is not saved
RoleEnum == {"owner", "admin", "editor", "viewer"}
saveRejected(role) == role \notin RoleEnum

\* boardMemberSchema.pre('save'): the switch on this.role; a role that matches
\* no case leaves the permissions as they are
MemberPreSave(doc) ==
  CASE doc.role = "owner" -> [doc EXCEPT !.permissions = OwnerPermissions]
    [] doc.role = "admin" -> [doc EXCEPT !.permissions = AdminPermissions]
    [] doc.role = "editor" -> [doc EXCEPT !.permissions = EditorPermissions]
    [] doc.role = "viewer" -> [doc EXCEPT !.permissions = ViewerPermissions]
    [] OTHER -> doc

\* BoardMember.create(fields): the schema defaults, then the save hook
MemberCreate(b, u, role, active) ==
  MemberPreSave([board |-> b, user |-> u, role |-> role,
                 permissions |-> DefaultPermissions, isActive |-> active])

\* the null a query answers when no document matches; req.membership when the
\* middleware set none (every permission read through it is falsy)
NoMember == [board |-> "none", user |-> "none", role |-> "none",
             permissions |-> [p \in DOMAIN DefaultPermissions |-> FALSE],
             isActive |-> FALSE]

\* BoardMember.findOne({board, user}): the unique index makes it at most one
MemberRows(b, u) == {m \in members : m.board = b /\ m.user = u}

\* BoardMember.findOne({board, user, isActive: true})
ActiveMember(b, u) ==
  IF \E m \in MemberRows(b, u) : m.isActive
    THEN CHOOSE m \in MemberRows(b, u) : m.isActive
    ELSE NoMember

(***************************************************************************)
(* The store                                                               *)
(***************************************************************************)
BoardExists(b) == \E x \in boards : x.id = b
BoardOf(b) == CHOOSE x \in boards : x.id = b
ListExists(l) == \E x \in lists : x.id = l
ListOf(l) == CHOOSE x \in lists : x.id = l
CardExists(c) == \E x \in cards : x.id = c
CardOf(c) == CHOOSE x \in cards : x.id = c

R(s, msg) == [status |-> s, message |-> msg]
Ok == R(200, "ok")

(***************************************************************************)
(* routes/boards.js                                                        *)
(***************************************************************************)
\* checkBoardAccess: owner, then public board (as a viewer, no membership
\* set), then the active membership
checkBoardAccess(u, b) ==
  IF ~BoardExists(b)
    THEN [ok |-> FALSE, resp |-> R(404, "Board not found"),
          userRole |-> "none", membership |-> NoMember]
  ELSE IF BoardOf(b).owner = u
    THEN [ok |-> TRUE, resp |-> Ok, userRole |-> "owner", membership |-> NoMember]
  ELSE IF BoardOf(b).isPublic
    THEN [ok |-> TRUE, resp |-> Ok, userRole |-> "viewer", membership |-> NoMember]
  ELSE IF ActiveMember(b, u) = NoMember
    THEN [ok |-> FALSE, resp |-> R(403, "Access denied"),
          userRole |-> "none", membership |-> NoMember]
  ELSE [ok |-> TRUE, resp |-> Ok, userRole |-> ActiveMember(b, u).role,
        membership |-> ActiveMember(b, u)]

\* new Date(): a time later than every timestamp the store holds
Now ==
  IF boards = {} THEN 1
  ELSE 1 + (CHOOSE t \in {x.lastActivity : x \in boards} :
              \A x \in boards : x.lastActivity <= t)

\* boardSchema.pre('save'): this.lastActivity = new Date()
boardPreSave(doc) == [doc EXCEPT !.lastActivity = Now]

\* POST /api/boards: the board, then the owner's BoardMember with role 'owner'
CreateBoard(u, pub) ==
  /\ \E b \in BoardIds :
       /\ ~BoardExists(b)
       /\ boards' = boards \cup
            {boardPreSave([id |-> b, owner |-> u, isPublic |-> pub, lastActivity |-> 0])}
       /\ members' = members \cup {MemberCreate(b, u, "owner", TRUE)}
  /\ UNCHANGED <<lists, cards, nextList, nextCard, reqs>>

\* authorize(userId, boardId, capability) of middleware/auth, by the contract
\* of the access evaluator: the owner, else the active membership's stored
\* permission for the capability
authorize(u, b, capability) ==
  /\ BoardExists(b)
  /\ \/ BoardOf(b).owner = u
     \/ /\ ActiveMember(b, u) # NoMember
        /\ ActiveMember(b, u).permissions[capability]

\* PUT /api/boards/:id, the lookup and the permission check
updateBoardResp(u, b) ==
  IF ~BoardExists(b) THEN R(404, "Board not found")
  ELSE IF ~authorize(u, b, "canEditBoard")
    THEN R(403, "Insufficient permissions to edit this board")
  ELSE Ok

\* the request bodies of a board update: isPublic given or not, and an owner
\* field that the handler does not read
BoardBodies == [isPublic : {<<>>, <<TRUE>>, <<FALSE>>}, owner : {<<>>, <<"u2">>}]

\* an update that hands every field of the body to the query
boardUpdateFieldsAll(board, body) ==
  [board EXCEPT !.isPublic = IF body.isPublic # <<>> THEN body.isPublic[1] ELSE @,
                !.owner = IF body.owner # <<>> THEN body.owner[1] ELSE @]

\* updateFields of PUT /api/boards/:id applied by findByIdAndUpdate: title,
\* description, background, isPublic and tags, whatever else the body holds;
\* a query update runs no save hook
boardUpdateFields(board, body) ==
  [board EXCEPT !.isPublic = IF body.isPublic # <<>> THEN body.isPublic[1] ELSE @]

\* PUT /api/boards/:id
UpdateBoard(u, b, body) ==
  /\ updateBoardResp(u, b) = Ok
  /\ boards' = (boards \ {BoardOf(b)}) \cup {boardUpdateFields(BoardOf(b), body)}
  /\ UNCHANGED <<members, lists, cards, nextList, nextCard, reqs>>

\* GET /api/boards/:id, the hasAccess expression over the populated board:
\* owner, or any BoardMember row of the board (the members virtual of the
\* Board schema matches on board alone, not on isActive), or a public board
getBoardAuth(u, b) ==
  IF ~BoardExists(b) THEN R(404, "Board not found")
  ELSE IF \/ BoardOf(b).owner = u
          \/ \E m \in members : m.board = b /\ m.user = u
          \/ BoardOf(b).isPublic
    THEN Ok
  ELSE R(403, "Access denied")

\* GET /api/boards/:id/members
getMembersAuth(u, b) == checkBoardAccess(u, b).resp

\* POST /api/boards/:id/members, the permission check
inviteAuth(u, b) ==
  LET a == checkBoardAccess(u, b) IN
  IF ~a.ok THEN a.resp
  ELSE IF /\ a.userRole # "owner" /\ a.userRole # "admin"
          /\ ~a.membership.permissions.canInviteMembers
    THEN R(403, "You do not have permission to invite members")
  ELSE Ok

\* POST /api/boards/:id/members, the response
inviteResp(u, b, target) ==
  IF inviteAuth(u, b) # Ok THEN inviteAuth(u, b)
  ELSE IF MemberRows(b, target) # {}
    THEN R(400, "User is already a member of this board")
  ELSE R(201, "Member invited successfully")

\* POST /api/boards/:id/members
InviteMember(u, b, target, role) ==
  /\ inviteResp(u, b, target).status = 201
  /\ members' = members \cup {MemberCreate(b, target, role, TRUE)}
  /\ UNCHANGED <<boards, lists, cards, nextList, nextCard, reqs>>

\* PUT /api/boards/:id/members/:memberId, the permission check
updateRoleAuth(u, b) ==
  LET a == checkBoardAccess(u, b) IN
  IF ~a.ok THEN a.resp
  ELSE IF a.userRole # "owner" /\ a.userRole # "admin"
    THEN R(403, "You do not have permission to manage members")
  ELSE Ok

\* findOneAndUpdate(filter, { role }): the update sets the role field alone;
\* query middleware is not document middleware, the save hook does not run
RoleWrite(m, role) == [m EXCEPT !.role = role]

\* an update whose filter is the member id alone
memberRoleUpdateAnyBoard(ms, b, m, role) == (ms \ {m}) \cup {RoleWrite(m, role)}

\* findOneAndUpdate({ _id: memberId, board: id }, { role }): a membership of
\* another board matches no document, 'Member not found'
memberRoleUpdate(ms, b, m, role) ==
  IF m.board = b THEN (ms \ {m}) \cup {RoleWrite(m, role)} ELSE ms

\* PUT /api/boards/:id/members/:memberId
UpdateMemberRole(u, b, m, role) ==
  /\ updateRoleAuth(u, b) = Ok
  /\ m \in members
  /\ members' = memberRoleUpdate(members, b, m, role)
  /\ UNCHANGED <<boards, lists, cards, nextList, nextCard, reqs>>

\* DELETE /api/boards/:id/members/:memberId, the permission check
removeAuth(u, b) ==
  LET a == checkBoardAccess(u, b) IN
  IF ~a.ok THEN a.resp
  ELSE IF /\ a.userRole # "owner" /\ a.userRole # "admin"
          /\ ~a.membership.permissions.canRemoveMembers
    THEN R(403, "You do not have permission to remove members")
  ELSE Ok

\* DELETE /api/boards/:id/members/:memberId
RemoveMember(u, b, m) ==
  /\ removeAuth(u, b) = Ok
  /\ m \in members /\ m.board = b
  /\ members' = members \ {m}
  /\ UNCHANGED <<boards, lists, cards, nextList, nextCard, reqs>>

(***************************************************************************)
(* models/List.js, routes/lists.js                                         *)
(***************************************************************************)
ListsOf(b) == {x \in lists : x.board = b}

\* findOne(filter).sort({ order: -1 }) over a non-empty set of documents
LastByOrder(S) == CHOOSE x \in S : \A y \in S : y.order <= x.order

\* a hook that keeps the order the route handed to create()
listPreSaveKeepsOrder(doc, ls) == doc

\* listSchema.pre('save') of a new document: last.order + 1, or 0
listPreSave(doc, ls) ==
  LET sib == {x \in ls : x.board = doc.board} IN
  [doc EXCEPT !.order = IF sib = {} THEN 0 ELSE LastByOrder(sib).order + 1]

\* POST /api/lists reads the last list itself: last.order + 1, or 1
listRouteOrder(b) ==
  IF ListsOf(b) = {} THEN 1 ELSE LastByOrder(ListsOf(b)).order + 1

\* a middleware without the owner branch
checkListAccessNoOwnerBranch(u, l) ==
  IF ~ListExists(l)
    THEN [ok |-> FALSE, resp |-> R(404, "List not found"),
          userRole |-> "none", membership |-> NoMember]
  ELSE LET board == BoardOf(ListOf(l).board) IN
  IF board.isPublic
    THEN [ok |-> TRUE, resp |-> Ok, userRole |-> "viewer", membership |-> NoMember]
  ELSE IF ActiveMember(board.id, u) = NoMember
    THEN [ok |-> FALSE, resp |-> R(403, "Access denied"),
          userRole |-> "none", membership |-> NoMember]
  ELSE [ok |-> TRUE, resp |-> Ok, userRole |-> ActiveMember(board.id, u).role,
        membership |-> ActiveMember(board.id, u)]

\* checkListAccess: the list's board, then as checkBoardAccess
checkListAccess(u, l) ==
  IF ~ListExists(l)
    THEN [ok |-> FALSE, resp |-> R(404, "List not found"),
          userRole |-> "none", membership |-> NoMember]
  ELSE LET board == BoardOf(ListOf(l).board) IN
  IF board.owner = u
    THEN [ok |-> TRUE, resp |-> Ok, userRole |-> "owner", membership |-> NoMember]
  ELSE IF board.isPublic
    THEN [ok |-> TRUE, resp |-> Ok, userRole |-> "viewer", membership |-> NoMember]
  ELSE IF ActiveMember(board.id, u) = NoMember
    THEN [ok |-> FALSE, resp |-> R(403, "Access denied"),
          userRole |-> "none", membership |-> NoMember]
  ELSE [ok |-> TRUE, resp |-> Ok, userRole |-> ActiveMember(board.id, u).role,
        membership |-> ActiveMember(board.id, u)]

\* GET /api/lists/board/:boardId
getListsAuth(u, b) ==
  IF ~BoardExists(b) THEN R(404, "Board not found")
  ELSE IF /\ BoardOf(b).owner # u /\ ~BoardOf(b).isPublic
          /\ ActiveMember(b, u) = NoMember
    THEN R(403, "Access denied")
  ELSE Ok

\* GET /api/lists/:id
getListAuth(u, l) == checkListAccess(u, l).resp

\* a check that refuses only a membership that lacks the permission
createListAuthNoNullCheck(u, b) ==
  IF ~BoardExists(b) THEN R(404, "Board not found")
  ELSE IF /\ BoardOf(b).owner # u
          /\ ActiveMember(b, u) # NoMember
          /\ ~ActiveMember(b, u).permissions.canCreateLists
    THEN R(403, "You do not have permission to create lists on this board")
  ELSE Ok

\* POST /api/lists, the permission check
createListAuth(u, b) ==
  IF ~BoardExists(b) THEN R(404, "Board not found")
  ELSE IF /\ BoardOf(b).owner # u
          /\ \/ ActiveMember(b, u) = NoMember
             \/ ~ActiveMember(b, u).permissions.canCreateLists
    THEN R(403, "You do not have permission to create lists on this board")
  ELSE Ok

\* POST /api/lists, run to completion
CreateList(u, b) ==
  /\ createListAuth(u, b) = Ok
  /\ lists' = lists \cup
       {listPreSave([id |-> nextList, board |-> b, order |-> listRouteOrder(b)], lists)}
  /\ nextList' = nextList + 1
  /\ UNCHANGED <<boards, members, cards, nextCard, reqs>>

\* PUT /api/lists/:id, the permission check
updateListAuth(u, l) ==
  LET a == checkListAccess(u, l) IN
  IF ~a.ok THEN a.resp
  ELSE IF /\ a.userRole # "owner" /\ a.membership # NoMember
          /\ ~a.membership.permissions.canEditLists
    THEN R(403, "You do not have permission to edit this list")
  ELSE Ok

\* the request bodies of a list update: a board or an order field that the
\* handler does not read
ListBodies == [board : {<<>>, <<"b2">>}, order : {<<>>, <<0>>}]

\* updateFields of PUT /api/lists/:id: title, description and color, none of
\* them in the state
listUpdateFields(list, body) == list

\* PUT /api/lists/:id
UpdateList(u, l) ==
  /\ updateListAuth(u, l) = Ok
  /\ \E body \in ListBodies :
       lists' = (lists \ {ListOf(l)}) \cup {listUpdateFields(ListOf(l), body)}
  /\ UNCHANGED <<boards, members, cards, nextList, nextCard, reqs>>

\* DELETE /api/lists/:id, the permission check
deleteListAuth(u, l) ==
  LET a == checkListAccess(u, l) IN
  IF ~a.ok THEN a.resp
  ELSE IF /\ a.userRole # "owner" /\ a.membership # NoMember
          /\ ~a.membership.permissions.canDeleteLists
    THEN R(403, "You do not have permission to delete this list")
  ELSE Ok

\* a deletion that closes the gap the list leaves among its siblings
DeleteListClosingGap(u, l) ==
  /\ deleteListAuth(u, l) = Ok
  /\ lists' = { IF x.board = ListOf(l).board /\ x.order > ListOf(l).order
                  THEN [x EXCEPT !.order = @ - 1] ELSE x : x \in lists \ {ListOf(l)} }
  /\ UNCHANGED <<boards, members, cards, nextList, nextCard, reqs>>

\* DELETE /api/lists/:id: the list alone, its cards stay
DeleteList(u, l) ==
  /\ deleteListAuth(u, l) = Ok
  /\ lists' = lists \ {ListOf(l)}
  /\ UNCHANGED <<boards, members, cards, nextList, nextCard, reqs>>

\* PUT /api/lists/:id/reorder, the permission check
reorderListAuth(u, l) ==
  LET a == checkListAccess(u, l) IN
  IF ~a.ok THEN a.resp
  ELSE IF /\ a.userRole # "owner" /\ a.membership # NoMember
          /\ ~a.membership.permissions.canEditLists
    THEN R(403, "You do not have permission to reorder this list")
  ELSE Ok

\* a forward shift that leaves out the upper end of the range
ShiftListsExclusive(ls, b, currentOrder, newOrder) ==
  { IF x.board = b /\ currentOrder < newOrder
         /\ x.order > currentOrder /\ x.order < newOrder
      THEN [x EXCEPT !.order = @ - 1]
    ELSE IF x.board = b /\ currentOrder > newOrder
         /\ x.order >= newOrder /\ x.order < currentOrder
      THEN [x EXCEPT !.order = @ + 1]
    ELSE x : x \in ls }

\* the two updateMany calls of the reorder route
ShiftLists(ls, b, currentOrder, newOrder) ==
  { IF x.board = b /\ currentOrder < newOrder
         /\ x.order > currentOrder /\ x.order <= newOrder
      THEN [x EXCEPT !.order = @ - 1]
    ELSE IF x.board = b /\ currentOrder > newOrder
         /\ x.order >= newOrder /\ x.order < currentOrder
      THEN [x EXCEPT !.order = @ + 1]
    ELSE x : x \in ls }

\* a save that does not write the new order
SaveListOrderSkipped(ls, l, newOrder) == ls

\* list.order = newOrder; list.save(): the order field of that document
SaveListOrder(ls, l, newOrder) ==
  { IF x.id = l THEN [x EXCEPT !.order = newOrder] ELSE x : x \in ls }

\* PUT /api/lists/:id/reorder, what the handler leaves of the lists ls:
\* 'List order unchanged' when the list is at newOrder, else the two writes
reorderListWrites(ls, l, newOrder) ==
  LET list == CHOOSE x \in ls : x.id = l IN
  IF list.order = newOrder
    THEN ls
    ELSE SaveListOrder(ShiftLists(ls, list.board, list.order, newOrder), l, newOrder)

\* PUT /api/lists/:id/reorder, run to completion
ReorderList(u, l, newOrder) ==
  /\ reorderListAuth(u, l) = Ok
  /\ lists' = reorderListWrites(lists, l, newOrder)
  /\ UNCHANGED <<boards, members, cards, nextList, nextCard, reqs>>

(***************************************************************************)
(* models/Card.js, routes/cards.js                                         *)
(***************************************************************************)
CardsOf(l) == {x \in cards : x.list = l}

\* cardSchema.pre('save') of a new document: last.order + 1, or 0
cardPreSave(doc, cs) ==
  LET sib == {x \in cs : x.list = doc.list} IN
  [doc EXCEPT !.order = IF sib = {} THEN 0 ELSE LastByOrder(sib).order + 1]

\* POST /api/cards reads the last card itself: last.order + 1, or 1
cardRouteOrder(l) ==
  IF CardsOf(l) = {} THEN 1 ELSE LastByOrder(CardsOf(l)).order + 1

\* checkCardAccess: the card's own board reference, then as checkBoardAccess
checkCardAccess(u, c) ==
  IF ~CardExists(c)
    THEN [ok |-> FALSE, resp |-> R(404, "Card not found"),
          userRole |-> "none", membership |-> NoMember]
  ELSE LET board == BoardOf(CardOf(c).board) IN
  IF board.owner = u
    THEN [ok |-> TRUE, resp |-> Ok, userRole |-> "owner", membership |-> NoMember]
  ELSE IF board.isPublic
    THEN [ok |-> TRUE, resp |-> Ok, userRole |-> "viewer", membership |-> NoMember]
  ELSE IF ActiveMember(board.id, u) = NoMember
    THEN [ok |-> FALSE, resp |-> R(403, "Access denied"),
          userRole |-> "none", membership |-> NoMember]
  ELSE [ok |-> TRUE, resp |-> Ok, userRole |-> ActiveMember(board.id, u).role,
        membership |-> ActiveMember(board.id, u)]

\* GET /api/cards/list/:listId
getCardsAuth(u, l) ==
  IF ~ListExists(l) THEN R(404, "List not found")
  ELSE LET board == BoardOf(ListOf(l).board) IN
  IF /\ board.owner # u /\ ~board.isPublic
     /\ ActiveMember(board.id, u) = NoMember
    THEN R(403, "Access denied")
  ELSE Ok

\* GET /api/cards/:id
getCardAuth(u, c) == checkCardAccess(u, c).resp

\* POST /api/cards, the permission check
createCardAuth(u, l) ==
  IF ~ListExists(l) THEN R(404, "List not found")
  ELSE LET board == BoardOf(ListOf(l).board) IN
  IF /\ board.owner # u
     /\ \/ ActiveMember(board.id, u) = NoMember
        \/ ~ActiveMember(board.id, u).permissions.canCreateCards
    THEN R(403, "You do not have permission to create cards on this board")
  ELSE Ok

\* POST /api/cards, run to completion
CreateCard(u, l) ==
  /\ createCardAuth(u, l) = Ok
  /\ cards' = cards \cup
       {cardPreSave([id |-> nextCard, list |-> l, board |-> ListOf(l).board,
                     order |-> cardRouteOrder(l)], cards)}
  /\ nextCard' = nextCard + 1
  /\ UNCHANGED <<boards, members, lists, nextList, reqs>>

\* PUT /api/cards/:id, the permission check
updateCardAuth(u, c) ==
  LET a == checkCardAccess(u, c) IN
  IF ~a.ok THEN a.resp
  ELSE IF /\ a.userRole # "owner" /\ a.userRole # "admin"
          /\ ~a.membership.permissions.canEditCards
    THEN R(403, "You do not have permission to edit this card")
  ELSE Ok

\* the request bodies of a card update: a board or a list field that the
\* handler does not read
CardBodies == [board : {<<>>, <<"b2">>}, list : {<<>>, <<2>>}]

\* updateFields of PUT /api/cards/:id: title, description, color, priority,
\* dueDate, isCompleted, labels and assignees, none of them in the state
cardUpdateFields(card, body) == card

\* PUT /api/cards/:id
UpdateCard(u, c) ==
  /\ updateCardAuth(u, c) = Ok
  /\ \E body \in CardBodies :
       cards' = (cards \ {CardOf(c)}) \cup {cardUpdateFields(CardOf(c), body)}
  /\ UNCHANGED <<boards, members, lists, nextList, nextCard, reqs>>

\* DELETE /api/cards/:id, the permission check
deleteCardAuth(u, c) ==
  LET a == checkCardAccess(u, c) IN
  IF ~a.ok THEN a.resp
  ELSE IF /\ a.userRole # "owner" /\ a.userRole # "admin"
          /\ ~a.membership.permissions.canDeleteCards
    THEN R(403, "You do not have permission to delete this card")
  ELSE Ok

\* DELETE /api/cards/:id
DeleteCard(u, c) ==
  /\ deleteCardAuth(u, c) = Ok
  /\ cards' = cards \ {CardOf(c)}
  /\ UNCHANGED <<boards, members, lists, nextList, nextCard, reqs>>

\* PATCH /api/cards/:id/move, the permission check
moveCardAuth(u, c) ==
  LET a == checkCardAccess(u, c) IN
  IF ~a.ok THEN a.resp
  ELSE IF /\ a.userRole # "owner" /\ a.userRole # "admin"
          /\ ~a.membership.permissions.canMoveCards
    THEN R(403, "You do not have permission to move this card")
  ELSE Ok

\* a target check that asks only for the list to exist
moveTargetExists(c, l) == ListExists(l)

\* PATCH /api/cards/:id/move: the target list exists and is on the card's board
moveTargetOk(c, l) == ListExists(l) /\ ListOf(l).board = CardOf(c).board

\* PATCH /api/cards/:id/move, the response
moveCardResp(u, c, l) ==
  IF moveCardAuth(u, c) # Ok THEN moveCardAuth(u, c)
  ELSE IF ~moveTargetOk(c, l)
    THEN R(400, "Target list not found or does not belong to the same board")
  ELSE Ok

\* an update that leaves the order alone when the request carries none
movedCardKeepsOrder(card, l, ord) ==
  [card EXCEPT !.list = l, !.order = IF ord # <<>> THEN ord[1] ELSE card.order]

\* the update { list: listId, order: order !== undefined ? order : 0 }
movedCard(card, l, ord) ==
  [card EXCEPT !.list = l, !.order = IF ord # <<>> THEN ord[1] ELSE 0]

\* PATCH /api/cards/:id/move: findByIdAndUpdate of list and order
MoveCard(u, c, l, ord) ==
  /\ moveCardResp(u, c, l) = Ok
  /\ cards' = (cards \ {CardOf(c)}) \cup {movedCard(CardOf(c), l, ord)}
  /\ UNCHANGED <<boards, members, lists, nextList, nextCard, reqs>>

\* POST /api/cards/:id/comments, the permission check
commentAuth(u, c) ==
  LET a == checkCardAccess(u, c) IN
  IF ~a.ok THEN a.resp
  ELSE IF /\ a.userRole # "owner" /\ a.userRole # "admin"
          /\ ~a.membership.permissions.canComment
    THEN R(403, "You do not have permission to comment on this card")
  ELSE Ok

\* POST /api/cards/:id/comments: the comments are not in the state
AddComment(u, c) ==
  /\ commentAuth(u, c) = Ok
  /\ UNCHANGED vars

\* POST /api/cards/:id/vote: the access middleware alone
voteAuth(u, c) == checkCardAccess(u, c).resp

\* POST /api/cards/:id/vote: the votes are not in the state
AddVote(u, c) ==
  /\ voteAuth(u, c) = Ok
  /\ UNCHANGED vars

\* PUT /api/cards/reorder, the list lookup and the permission check
reorderCardsAuth(u, l) ==
  IF ~ListExists(l) THEN R(404, "List not found")
  ELSE LET board == BoardOf(ListOf(l).board) IN
  IF /\ board.owner # u
     /\ \/ ActiveMember(board.id, u) = NoMember
        \/ ~ActiveMember(board.id, u).permissions.canMoveCards
    THEN R(403, "You do not have permission to reorder cards on this list")
  ELSE Ok

\* Card.find({ _id: { $in: cardIds }, list: listId })
CardsFound(l, cardOrders) ==
  {c \in cards : c.list = l /\ \E i \in DOMAIN cardOrders : cardOrders[i].cardId = c.id}

\* a verification that asks only for one card of the list among the entries
bulkReorderVerifiedSome(l, cardOrders) == CardsFound(l, cardOrders) # {}

\* PUT /api/cards/reorder: cards.length !== cardOrders.length is refused
bulkReorderVerified(l, cardOrders) ==
  Cardinality(CardsFound(l, cardOrders)) = Len(cardOrders)

\* PUT /api/cards/reorder, the response
bulkReorderResp(u, l, cardOrders) ==
  IF reorderCardsAuth(u, l) # Ok THEN reorderCardsAuth(u, l)
  ELSE IF ~bulkReorderVerified(l, cardOrders)
    THEN R(400, "Some cards do not belong to this list")
  ELSE Ok

\* one updateOne of the bulkWrite: filter { _id: cardId, list: listId }
updateOneOrder(cs, l, entry) ==
  { IF c.id = entry.cardId /\ c.list = l THEN [c EXCEPT !.order = entry.order] ELSE c
    : c \in cs }

\* cardSchema.statics.reorderCards: the updates of the bulkWrite, in order
RECURSIVE reorderCards(_, _, _)
reorderCards(cs, l, cardOrders) ==
  IF cardOrders = <<>> THEN cs
  ELSE reorderCards(updateOneOrder(cs, l, Head(cardOrders)), l, Tail(cardOrders))

\* PUT /api/cards/reorder, run to completion
BulkReorderCards(u, l, cardOrders) ==
  /\ bulkReorderResp(u, l, cardOrders) = Ok
  /\ cards' = reorderCards(cards, l, cardOrders)
  /\ UNCHANGED <<boards, members, lists, nextList, nextCard, reqs>>

(***************************************************************************)
(* The store at start: board b1 of u1 with the owner's BoardMember, and     *)
(* possibly one more BoardMember saved through the model. isActive is a    *)
(* field of the schema that no route writes: a soft-disabled membership    *)
(* is in the store from the start or never.                                *)
(***************************************************************************)
IdleReq == [kind |-> "idle", board |-> "none", list |-> 0, order |-> 0, from |-> 0,
            ops |-> <<>>, applied |-> 0, missed |-> 0, user |-> "none", role |-> "none"]

SeededStore ==
  /\ \E pub \in BOOLEAN :
       boards = {[id |-> "b1", owner |-> "u1", isPublic |-> pub, lastActivity |-> 1]}
  /\ \E oa \in BOOLEAN :
       \E seed \in {{}} \cup {{MemberCreate("b1", "u2", r, a)} :
                               r \in InviteRoles, a \in BOOLEAN} :
         members = {MemberCreate("b1", "u1", "owner", oa)} \cup seed

EmptyStore == boards = {} /\ members = {}

Init ==
  /\ EmptyStore \/ SeededStore
  /\ lists = {}
  /\ cards = {}
  /\ nextList = 1
  /\ nextCard = 1
  /\ reqs = [r \in 1..MaxReqs |-> IdleReq]

\* every request runs to completion before the next one starts
Next ==
  \/ boards = {} /\ \E u \in Creators, pub \in BOOLEAN : CreateBoard(u, pub)
  \/ \E u \in Users, b \in BoardIds, t \in Users, r \in InviteRoles : InviteMember(u, b, t, r)
  \/ \E u \in Users, b \in BoardIds, m \in members, r \in InviteRoles : UpdateMemberRole(u, b, m, r)
  \/ \E u \in Users, b \in BoardIds, m \in members : RemoveMember(u, b, m)
  \/ nextList \in SpecLists /\ \E u \in Users, b \in BoardIds : CreateList(u, b)
  \/ \E u \in Users, x \in lists : UpdateList(u, x.id)
  \/ \E u \in Users, x \in lists : DeleteList(u, x.id)
  \/ \E u \in Users, x \in lists, n \in SpecOrders : ReorderList(u, x.id, n)
  \/ nextCard \in SpecCards /\ \E u \in Users, x \in lists : CreateCard(u, x.id)
  \/ \E u \in Users, c \in cards : UpdateCard(u, c.id)
  \/ \E u \in Users, c \in cards : DeleteCard(u, c.id)
  \/ \E u \in Users, c \in cards, x \in lists, o \in SpecMoveOrders : MoveCard(u, c.id, x.id, o)
  \/ \E u \in Users, c \in cards : AddComment(u, c.id)
  \/ \E u \in Users, c \in cards : AddVote(u, c.id)

Spec == Init /\ [][Next]_vars

(***************************************************************************)
(* The ordering specifications: one private board of u1 with u2 as editor. *)
(***************************************************************************)
InitOrder ==
  /\ boards = {[id |-> "b1", owner |-> "u1", isPublic |-> FALSE, lastActivity |-> 1]}
  /\ members = {MemberCreate("b1", "u1", "owner", TRUE),
                MemberCreate("b1", "u2", "editor", TRUE)}
  /\ lists = {}
  /\ cards = {}
  /\ nextList = 1
  /\ nextCard = 1
  /\ reqs = [r \in 1..MaxReqs |-> IdleReq]

\* the list and card requests, one after another
NextSeq ==
  \/ nextList <= MaxSeqLists /\ \E u \in Users, b \in BoardIds : CreateList(u, b)
  \/ \E u \in Users, x \in lists : DeleteList(u, x.id)
  \/ \E u \in Users, x \in lists, n \in ReorderOrders : ReorderList(u, x.id, n)
  \/ nextCard \in SpecCards /\ \E u \in Users, x \in lists : CreateCard(u, x.id)
  \/ \E u \in Users, c \in cards : DeleteCard(u, c.id)

SpecSeq == InitOrder /\ [][NextSeq]_vars

(***************************************************************************)
(* Appends only, from every store Spec starts in                           *)
(***************************************************************************)
InitAppend ==
  /\ SeededStore
  /\ lists = {}
  /\ cards = {}
  /\ nextList = 1
  /\ nextCard = 1
  /\ reqs = [r \in 1..MaxReqs |-> IdleReq]

NextAppend ==
  \/ nextList <= MaxSeqLists /\ \E u \in Users, b \in BoardIds : CreateList(u, b)
  \/ nextCard <= MaxSeqCards /\ \E u \in Users, x \in lists : CreateCard(u, x.id)

SpecAppend == InitAppend /\ [][NextAppend]_vars

(***************************************************************************)
(* Requests in flight together. A create request awaits the query of its   *)
(* save hook before the insert is sent: other requests run in between.     *)
(***************************************************************************)
InFlight(kind) == Cardinality({r \in 1..MaxReqs : reqs[r].kind = kind})

\* POST /api/lists up to the end of the save hook: the order is computed
CreateListRead(r, u, b) ==
  /\ reqs[r].kind = "idle"
  /\ createListAuth(u, b) = Ok
  /\ reqs' = [reqs EXCEPT ![r] =
       [IdleReq EXCEPT !.kind = "list", !.board = b,
          !.order = listPreSave([id |-> 0, board |-> b, order |-> listRouteOrder(b)],
                                lists).order]]
  /\ UNCHANGED store

\* POST /api/lists, the insert of the document the hook left
CreateListInsert(r) ==
  /\ reqs[r].kind = "list"
  /\ lists' = lists \cup {[id |-> nextList, board |-> reqs[r].board, order |-> reqs[r].order]}
  /\ nextList' = nextList + 1
  /\ reqs' = [reqs EXCEPT ![r] = IdleReq]
  /\ UNCHANGED <<boards, members, cards, nextCard>>

\* POST /api/cards up to the end of the save hook
CreateCardRead(r, u, l) ==
  /\ reqs[r].kind = "idle"
  /\ createCardAuth(u, l) = Ok
  /\ reqs' = [reqs EXCEPT ![r] =
       [IdleReq EXCEPT !.kind = "card", !.board = ListOf(l).board, !.list = l,
          !.order = cardPreSave([id |-> 0, list |-> l, board |-> ListOf(l).board,
                                 order |-> cardRouteOrder(l)], cards).order]]
  /\ UNCHANGED store

\* POST /api/cards, the insert
CreateCardInsert(r) ==
  /\ reqs[r].kind = "card"
  /\ cards' = cards \cup {[id |-> nextCard, list |-> reqs[r].list, board |-> reqs[r].board,
                           order |-> reqs[r].order]}
  /\ nextCard' = nextCard + 1
  /\ reqs' = [reqs EXCEPT ![r] = IdleReq]
  /\ UNCHANGED <<boards, members, lists, nextList>>

NextConc ==
  \/ /\ nextList + InFlight("list") <= MaxSeqLists
     /\ \E r \in 1..MaxReqs, u \in Users, b \in BoardIds : CreateListRead(r, u, b)
  \/ \E r \in 1..MaxReqs : CreateListInsert(r)
  \/ /\ nextCard + InFlight("card") <= MaxSeqCards
     /\ \E r \in 1..MaxReqs, u \in Users, x \in lists : CreateCardRead(r, u, x.id)
  \/ \E r \in 1..MaxReqs : CreateCardInsert(r)

SpecConc == InitOrder /\ [][NextConc]_vars

(***************************************************************************)
(* A list reorder in flight: the updateMany and the save of the moved list *)
(* are two writes with an await between them, and no transaction.          *)
(***************************************************************************)
\* the lists and the positions of the interleaved reorders
ConcLists == {1, 2, 3}
ConcOrders == {1, 2}

\* PUT /api/lists/:id/reorder up to the end of updateMany: the siblings moved
ReorderListShift(r, u, l, newOrder) ==
  /\ reqs[r].kind = "idle"
  /\ reorderListAuth(u, l) = Ok
  /\ ListOf(l).order # newOrder
  /\ lists' = ShiftLists(lists, ListOf(l).board, ListOf(l).order, newOrder)
  /\ reqs' = [reqs EXCEPT ![r] =
       [IdleReq EXCEPT !.kind = "reorder", !.board = ListOf(l).board, !.list = l,
          !.order = newOrder, !.from = ListOf(l).order]]
  /\ UNCHANGED <<boards, members, cards, nextList, nextCard>>

\* PUT /api/lists/:id/reorder, list.save() of the document read before
ReorderListSave(r) ==
  /\ reqs[r].kind = "reorder"
  /\ lists' = SaveListOrder(lists, reqs[r].list, reqs[r].order)
  /\ reqs' = [reqs EXCEPT ![r] = IdleReq]
  /\ UNCHANGED <<boards, members, cards, nextList, nextCard>>

NextReorderConc ==
  \/ nextList \in ConcLists /\ \E u \in Users, b \in BoardIds : CreateList(u, b)
  \/ \E r \in 1..MaxReqs, u \in Users, x \in lists, n \in ConcOrders :
       ReorderListShift(r, u, x.id, n)
  \/ \E r \in 1..MaxReqs : ReorderListSave(r)

SpecReorderConc == InitOrder /\ [][NextReorderConc]_vars

(***************************************************************************)
(* The card requests on two boards of u1, one request after another.       *)
(***************************************************************************)
\* the lists and cards created, and the orders a move request carries
CardLists == {1, 2}
CardIds == {1, 2, 3}
CardMoveOrders == {<<>>, <<0>>, <<1>>, <<2>>}
\* the batches a bulk reorder request carries: one or two entries
BatchEntries == [cardId : CardIds, order : {0, 1}]
Batches == {<<e>> : e \in BatchEntries} \cup {<<e, f>> : e \in BatchEntries, f \in BatchEntries}

InitCards ==
  /\ boards = {[id |-> "b1", owner |-> "u1", isPublic |-> FALSE, lastActivity |-> 1],
               [id |-> "b2", owner |-> "u1", isPublic |-> FALSE, lastActivity |-> 2]}
  /\ members = {MemberCreate("b1", "u1", "owner", TRUE),
                MemberCreate("b2", "u1", "owner", TRUE),
                MemberCreate("b1", "u2", "editor", TRUE)}
  /\ lists = {}
  /\ cards = {}
  /\ nextList = 1
  /\ nextCard = 1
  /\ reqs = [r \in 1..MaxReqs |-> IdleReq]

NextCards ==
  \/ nextList \in CardLists /\ \E u \in Users, b \in BoardIds : CreateList(u, b)
  \/ nextCard \in CardIds /\ \E u \in Users, x \in lists : CreateCard(u, x.id)
  \/ \E u \in Users, c \in cards, x \in lists, o \in CardMoveOrders :
       MoveCard(u, c.id, x.id, o)
  \/ \E u \in Users, x \in lists, co \in Batches : BulkReorderCards(u, x.id, co)

SpecCardSeq == InitCards /\ [][NextCards]_vars

(***************************************************************************)
(* A bulk reorder in flight: the verification, then the bulkWrite, whose   *)
(* updates are single-document writes outside any transaction.             *)
(***************************************************************************)
\* the cards and the batches of the interleaved bulk reorders
BulkCards == {1, 2}
BulkEntries == [cardId : BulkCards, order : {0, 1}]
BulkBatches == {<<e, f>> : e \in BulkEntries, f \in BulkEntries}

\* PUT /api/cards/reorder up to the end of the verification
BulkReorderVerify(r, u, l, cardOrders) ==
  /\ reqs[r].kind = "idle"
  /\ bulkReorderResp(u, l, cardOrders) = Ok
  /\ reqs' = [reqs EXCEPT ![r] =
       [IdleReq EXCEPT !.kind = "bulk", !.board = ListOf(l).board, !.list = l,
                       !.ops = cardOrders]]
  /\ UNCHANGED store

\* the next updateOne of the bulkWrite: it matches the card or it matches none
BulkWriteOne(r) ==
  /\ reqs[r].kind = "bulk"
  /\ reqs[r].ops # <<>>
  /\ LET entry == Head(reqs[r].ops)
         hit == \E c \in cards : c.id = entry.cardId /\ c.list = reqs[r].list
     IN /\ cards' = updateOneOrder(cards, reqs[r].list, entry)
        /\ reqs' = [reqs EXCEPT ![r].ops = Tail(@),
                                ![r].applied = IF hit THEN @ + 1 ELSE @,
                                ![r].missed = IF hit THEN @ ELSE @ + 1]
  /\ UNCHANGED <<boards, members, lists, nextList, nextCard>>

\* PUT /api/cards/reorder: 'Cards reordered successfully'
BulkReorderRespond(r) ==
  /\ reqs[r].kind = "bulk"
  /\ reqs[r].ops = <<>>
  /\ reqs' = [reqs EXCEPT ![r] = IdleReq]
  /\ UNCHANGED store

NextBulkConc ==
  \/ nextList \in CardLists /\ \E u \in Users, b \in BoardIds : CreateList(u, b)
  \/ nextCard \in BulkCards /\ \E u \in Users, x \in lists : CreateCard(u, x.id)
  \/ \E u \in Users, c \in cards, x \in lists : MoveCard(u, c.id, x.id, <<>>)
  \/ \E r \in 1..MaxReqs, u \in Users, x \in lists, co \in BulkBatches :
       BulkReorderVerify(r, u, x.id, co)
  \/ \E r \in 1..MaxReqs : BulkWriteOne(r)
  \/ \E r \in 1..MaxReqs : BulkReorderRespond(r)

SpecBulkConc == InitCards /\ [][NextBulkConc]_vars

(***************************************************************************)
(* Invites in flight: the existing-member lookup, then BoardMember.create. *)
(***************************************************************************)
\* an insert into a collection without the unique index
insertMemberNoIndex(ms, doc) == ms \cup {doc}

\* the insert of BoardMember.create under the unique index on (board, user):
\* a second document for the pair is refused with a duplicate key error
insertMember(ms, doc) ==
  IF \E m \in ms : m.board = doc.board /\ m.user = doc.user
    THEN ms
    ELSE ms \cup {doc}

\* POST /api/boards/:id/members up to the end of the existing-member lookup
InviteCheck(r, u, b, target, role) ==
  /\ reqs[r].kind = "idle"
  /\ inviteResp(u, b, target).status = 201
  /\ reqs' = [reqs EXCEPT ![r] =
       [IdleReq EXCEPT !.kind = "invite", !.board = b, !.user = target, !.role = role]]
  /\ UNCHANGED store

\* POST /api/boards/:id/members, BoardMember.create: 201, or the duplicate
\* key error that the catch block answers with 500
InviteInsert(r) ==
  /\ reqs[r].kind = "invite"
  /\ members' = insertMember(members,
                  MemberCreate(reqs[r].board, reqs[r].user, reqs[r].role, TRUE))
  /\ reqs' = [reqs EXCEPT ![r] = IdleReq]
  /\ UNCHANGED <<boards, lists, cards, nextList, nextCard>>

NextInviteConc ==
  \/ \E r \in 1..MaxReqs, u \in Users, b \in BoardIds, t \in Users, role \in InviteRoles :
       InviteCheck(r, u, b, t, role)
  \/ \E r \in 1..MaxReqs : InviteInsert(r)
  \/ \E u \in Users, b \in BoardIds, m \in members : RemoveMember(u, b, m)

SpecInviteConc == InitOrder /\ [][NextInviteConc]_vars

(***************************************************************************)
(* Appends and deletions of lists and cards, one request after another.    *)
(***************************************************************************)
NextDelete ==
  \/ nextList \in ConcLists /\ \E u \in Users, b \in BoardIds : CreateList(u, b)
  \/ nextCard \in CardIds /\ \E u \in Users, x \in lists : CreateCard(u, x.id)
  \/ \E u \in Users, x \in lists : DeleteList(u, x.id)
  \/ \E u \in Users, c \in cards : DeleteCard(u, c.id)

SpecDelete == InitOrder /\ [][NextDelete]_vars

(***************************************************************************)
(* The update requests on two boards of u1: board, list and card updates,  *)
(* list reorders, card moves and bulk reorders, one request after another. *)
(***************************************************************************)
NextFrame ==
  \/ \E u \in Users, b \in BoardIds, body \in BoardBodies : UpdateBoard(u, b, body)
  \/ nextList \in CardLists /\ \E u \in Users, b \in BoardIds : CreateList(u, b)
  \/ \E u \in Users, x \in lists : UpdateList(u, x.id)
  \/ \E u \in Users, x \in lists, n \in ConcOrders : ReorderList(u, x.id, n)
  \/ nextCard \in BulkCards /\ \E u \in Users, x \in lists : CreateCard(u, x.id)
  \/ \E u \in Users, c \in cards : UpdateCard(u, c.id)
  \/ \E u \in Users, c \in cards, x \in lists, o \in SpecMoveOrders :
       MoveCard(u, c.id, x.id, o)
  \/ \E u \in Users, x \in lists, co \in BulkBatches : BulkReorderCards(u, x.id, co)

SpecFrame == InitCards /\ [][NextFrame]_vars

(***************************************************************************)
(* The board and membership requests: the first board of u1 as Spec starts *)
(* with it, a second board created by another user.                        *)
(***************************************************************************)
\* who creates the second board, who is invited, and the roles the requests
\* carry
BoardCreators == {"u2"}
Invitees == {"u3"}
BoardRoles == {"admin", "viewer"}

\* the first board with its owner's BoardMember, and possibly a BoardMember
\* of u2 of any role, active or soft-disabled
InitBoards ==
  /\ \E pub \in BOOLEAN :
       boards = {[id |-> "b1", owner |-> "u1", isPublic |-> pub, lastActivity |-> 1]}
  /\ \E seed \in {{}} \cup {{MemberCreate("b1", "u2", r, a)} :
                             r \in InviteRoles, a \in BOOLEAN} :
       members = {MemberCreate("b1", "u1", "owner", TRUE)} \cup seed
  /\ lists = {}
  /\ cards = {}
  /\ nextList = 1
  /\ nextCard = 1
  /\ reqs = [r \in 1..MaxReqs |-> IdleReq]

NextBoards ==
  \/ \E u \in BoardCreators, pub \in BOOLEAN : CreateBoard(u, pub)
  \/ \E u \in Users, b \in BoardIds, body \in BoardBodies : UpdateBoard(u, b, body)
  \/ \E u \in Users, b \in BoardIds, t \in Invitees, r \in BoardRoles :
       InviteMember(u, b, t, r)
  \/ \E u \in Users, b \in BoardIds, m \in members, r \in BoardRoles :
       UpdateMemberRole(u, b, m, r)
  \/ \E u \in Users, b \in BoardIds, m \in members : RemoveMember(u, b, m)

SpecBoards == InitBoards /\ [][NextBoards]_vars

(***************************************************************************)
(* The documented permission table and the actors of the access rules      *)
(***************************************************************************)
Capabilities == DOMAIN DefaultPermissions

\* the table of the permission resolver; the board-level owner has everything
DocumentedTable(role) ==
  CASE role = "admin" -> [p \in Capabilities |-> p # "canDeleteBoard"]
    [] role = "editor" ->
         [p \in Capabilities |-> p \in {"canCreateLists", "canEditLists", "canCreateCards",
                                        "canEditCards", "canMoveCards", "canComment"}]
    [] role = "viewer" -> [p \in Capabilities |-> FALSE]
    [] role = "owner" -> [p \in Capabilities |-> TRUE]

Allowed(resp) == resp.status = 200
Denied(resp) == resp.status = 403

IsOwner(u, b) == BoardExists(b) /\ BoardOf(b).owner = u
HasActiveRow(u, b) == \E m \in MemberRows(b, u) : m.isActive
CardsOn(b) == {c \in cards : c.board = b}

\* every read of board b and of what it holds, asked by u
ReadsAllowed(u, b) ==
  /\ Allowed(getBoardAuth(u, b)) /\ Allowed(getMembersAuth(u, b))
  /\ Allowed(getListsAuth(u, b))
  /\ \A x \in ListsOf(b) : Allowed(getListAuth(u, x.id)) /\ Allowed(getCardsAuth(u, x.id))
  /\ \A c \in CardsOn(b) : Allowed(getCardAuth(u, c.id))

ReadsDenied(u, b) ==
  /\ Denied(getBoardAuth(u, b)) /\ Denied(getMembersAuth(u, b))
  /\ Denied(getListsAuth(u, b))
  /\ \A x \in ListsOf(b) : Denied(getListAuth(u, x.id)) /\ Denied(getCardsAuth(u, x.id))
  /\ \A c \in CardsOn(b) : Denied(getCardAuth(u, c.id))

\* every mutating request on board b and on what it holds, asked by u
MutationsAllowed(u, b) ==
  /\ Allowed(inviteAuth(u, b)) /\ Allowed(updateRoleAuth(u, b)) /\ Allowed(removeAuth(u, b))
  /\ Allowed(createListAuth(u, b))
  /\ \A x \in ListsOf(b) :
       /\ Allowed(updateListAuth(u, x.id)) /\ Allowed(deleteListAuth(u, x.id))
       /\ Allowed(reorderListAuth(u, x.id)) /\ Allowed(createCardAuth(u, x.id))
  /\ \A c \in CardsOn(b) :
       /\ Allowed(updateCardAuth(u, c.id)) /\ Allowed(deleteCardAuth(u, c.id))
       /\ Allowed(moveCardAuth(u, c.id)) /\ Allowed(commentAuth(u, c.id))
       /\ Allowed(voteAuth(u, c.id))

MutationsDenied(u, b) ==
  /\ Denied(inviteAuth(u, b)) /\ Denied(updateRoleAuth(u, b)) /\ Denied(removeAuth(u, b))
  /\ Denied(createListAuth(u, b))
  /\ \A x \in ListsOf(b) :
       /\ Denied(updateListAuth(u, x.id)) /\ Denied(deleteListAuth(u, x.id))
       /\ Denied(reorderListAuth(u, x.id)) /\ Denied(createCardAuth(u, x.id))
  /\ \A c \in CardsOn(b) :
       /\ Denied(updateCardAuth(u, c.id)) /\ Denied(deleteCardAuth(u, c.id))
       /\ Denied(moveCardAuth(u, c.id)) /\ Denied(commentAuth(u, c.id))
       /\ Denied(voteAuth(u, c.id))

\* a step of Spec that is a mutating request of u on board b or on what it holds
MutationBy(u, b) ==
  \/ \E t \in Users, r \in InviteRoles : InviteMember(u, b, t, r)
  \/ \E m \in members, r \in InviteRoles : UpdateMemberRole(u, b, m, r)
  \/ \E m \in members : RemoveMember(u, b, m)
  \/ CreateList(u, b)
  \/ \E x \in ListsOf(b) :
       \/ DeleteList(u, x.id)
       \/ \E n \in SpecOrders : ReorderList(u, x.id, n)
       \/ CreateCard(u, x.id)
  \/ \E c \in CardsOn(b) :
       \/ DeleteCard(u, c.id)
       \/ \E x \in lists, o \in SpecMoveOrders : MoveCard(u, c.id, x.id, o)

(***************************************************************************)
(* C1 .. C7                                                                *)
(***************************************************************************)
\* C1: every stored membership's permissions are exactly the documented set
\* of its current role, after any sequence of membership operations
C1_PermissionsMatchRole ==
  \A m \in members : m.permissions = DocumentedTable(m.role)

\* C2: on a public board a user who is neither the owner nor an active member
\* may read, and is denied every mutating request
C2_PublicNonMemberReadOnly ==
  \A b \in boards, u \in Users :
    (b.isPublic /\ b.owner # u /\ ~HasActiveRow(u, b.id))
      => ReadsAllowed(u, b.id) /\ MutationsDenied(u, b.id)

\* C3: the owner of a board is allowed every request on it, whatever
\* BoardMember rows the board has for the owner
C3_OwnerAllowed ==
  \A b \in boards : ReadsAllowed(b.owner, b.id) /\ MutationsAllowed(b.owner, b.id)

\* the owner's own row is soft-disabled and re-roled to viewer, and the board
\* holds a list and a card
C3_Witness ==
  \E b \in boards :
    /\ \E m \in MemberRows(b.id, b.owner) : ~m.isActive /\ m.role = "viewer"
    /\ ~b.isPublic
    /\ ListsOf(b.id) # {} /\ CardsOn(b.id) # {}

C6_AdminDeletesLists ==
  \A m \in members :
    m.role = "admin" =>
      /\ m.permissions.canDeleteLists
      /\ (m.isActive /\ ~IsOwner(m.user, m.board))
           => \A x \in ListsOf(m.board) : Allowed(deleteListAuth(m.user, x.id))

\* C7: a membership document that goes through the save hook with role
\* admin, editor or viewer is stored with the documented table of that role
C7_SaveHookTable ==
  /\ \A m \in members : m.role \in InviteRoles => m.permissions = DocumentedTable(m.role)
  /\ [][\A m \in members' :
          (MemberRows(m.board, m.user) = {} /\ m.role \in InviteRoles)
            => m.permissions = DocumentedTable(m.role)]_vars

\* invites have stored one membership of each role, each with its table
C7_Witness ==
  /\ \E m \in members : m.user = "u3" /\ m.role = "editor"
                        /\ m.permissions = DocumentedTable("editor")
  /\ \E m \in members : m.user = "u2" /\ m.role = "admin"
                        /\ m.permissions = DocumentedTable("admin")

(***************************************************************************)
(* C8 .. C10                                                               *)
(***************************************************************************)
DistinctOrders(S) == \A x \in S, y \in S : x.id # y.id => x.order # y.order

\* C8: under any interleaving of append requests no two lists of a board and
\* no two cards of a list are stored with the same order
C8_NoDuplicateOrder ==
  /\ \A b \in BoardIds : DistinctOrders(ListsOf(b))
  /\ \A x \in lists : DistinctOrders(CardsOf(x.id))

MaxOrderIn(S) == LastByOrder(S).order

\* C9: appended one after another, the items of a parent hold 0, 1, ..., N-1
\* in creation order, each new one 1 + the largest order among its siblings,
\* or 0 when it has none
C9_SequentialAppend ==
  /\ [](/\ \A x \in lists : x.order = Cardinality({y \in ListsOf(x.board) : y.id < x.id})
        /\ \A c \in cards : c.order = Cardinality({d \in CardsOf(c.list) : d.id < c.id}))
  /\ [][/\ \A x \in lists' :
             ~ListExists(x.id) =>
               x.order = IF ListsOf(x.board) = {} THEN 0
                         ELSE 1 + MaxOrderIn(ListsOf(x.board))
        /\ \A c \in cards' :
             ~CardExists(c.id) =>
               c.order = IF CardsOf(c.list) = {} THEN 0
                         ELSE 1 + MaxOrderIn(CardsOf(c.list))]_vars

\* three lists appended to one board and two cards appended to one list
C9_Witness ==
  /\ \E b \in BoardIds : {x.order : x \in ListsOf(b)} = {0, 1, 2}
  /\ \E x \in lists : {c.order : c \in CardsOf(x.id)} = {0, 1}

\* the document of lists' that has the id of y
After(y) == CHOOSE z \in lists' : z.id = y.id

\* what the reorder of list x to newOrder leaves in the store
ReorderEffect(x, newOrder) ==
  LET old == x.order
      sib == ListsOf(x.board) \ {x}
  IN /\ {z.id : z \in lists'} = {z.id : z \in lists}
     /\ After(x).order = newOrder /\ After(x).board = x.board
     /\ \A y \in sib :
          After(y) = IF old < newOrder /\ y.order > old /\ y.order <= newOrder
                       THEN [y EXCEPT !.order = y.order - 1]
                     ELSE IF old > newOrder /\ y.order >= newOrder /\ y.order < old
                       THEN [y EXCEPT !.order = y.order + 1]
                     ELSE y
     /\ \A y \in lists : y.board # x.board => After(y) = y
     /\ DistinctOrders({z \in lists' : z.board = x.board})
     /\ \A y \in sib, z \in sib : y.order < z.order => After(y).order < After(z).order

\* C10: a reorder of list x to newOrder on a board whose lists have distinct
\* orders shifts exactly the siblings between the two positions by one, puts
\* x at newOrder, leaves the rest, keeps the orders distinct and the relative
\* order of the other lists
C10_ReorderShifts ==
  [][\A u \in Users, x \in lists, n \in ReorderOrders :
       (DistinctOrders(ListsOf(x.board)) /\ ReorderList(u, x.id, n))
         => ReorderEffect(x, n)]_vars

\* list 1 went from the front to the end, behind lists 2 and 3
C10_Witness ==
  /\ \E x \in lists : x.id = 1 /\ x.order = 2
  /\ \E x \in lists : x.id = 2 /\ x.order = 0
  /\ \E x \in lists : x.id = 3 /\ x.order = 1

(***************************************************************************)
(* C11 .. C20                                                              *)
(***************************************************************************)
\* C11: the order changes of one list reorder are applied as one unit: no
\* state holds a sibling already shifted onto the position of the moved list
\* while the moved list still has its old order
C11_ReorderIsAtomic ==
  \A r \in 1..MaxReqs :
    (/\ reqs[r].kind = "reorder" /\ ListExists(reqs[r].list)
     /\ ListOf(reqs[r].list).order = reqs[r].from)
      => \A y \in ListsOf(reqs[r].board) :
           y.id # reqs[r].list => y.order # reqs[r].from

\* the document of cards' that has the id of y
CardAfter(y) == CHOOSE z \in cards' : z.id = y.id

\* C12: in a list holding A (order 0), C (order 1) and D (order 2), moving D
\* to position 0 of that list leaves D = 0, A = 1, C = 2
C12_MoveToFront ==
  [][\A u \in Users, a \in cards, c \in cards, d \in cards :
       (/\ CardsOf(d.list) = {a, c, d}
        /\ a.order = 0 /\ c.order = 1 /\ d.order = 2
        /\ MoveCard(u, d.id, d.list, <<0>>))
         => /\ CardAfter(d).order = 0
            /\ CardAfter(a).order = 1
            /\ CardAfter(c).order = 2]_vars

\* the batch names a card that is not in list l
NamesForeignCard(l, cardOrders) ==
  \E i \in DOMAIN cardOrders : cardOrders[i].cardId \notin {c.id : c \in CardsOf(l)}

\* C13: a bulk reorder for list l that names a card outside l is answered
\* with an error, and no such request changes any card
C13_BulkReorderRejected ==
  /\ [](\A u \in Users, x \in lists, co \in Batches :
          NamesForeignCard(x.id, co) => bulkReorderResp(u, x.id, co).status \in {400, 403})
  /\ [][\A u \in Users, x \in lists, co \in Batches :
          (NamesForeignCard(x.id, co) /\ BulkReorderCards(u, x.id, co))
            => UNCHANGED cards]_vars

\* the owner's batch names a card of the list and a card of another list, and
\* is refused with the 400 of the verification
C13_Witness ==
  \E x \in lists, co \in Batches :
    /\ Len(co) = 2 /\ co[1].cardId \in {c.id : c \in CardsOf(x.id)}
    /\ co[2].cardId \in {c.id : c \in cards} /\ NamesForeignCard(x.id, co)
    /\ bulkReorderResp("u1", x.id, co) = R(400, "Some cards do not belong to this list")

\* no batch in flight has some of its assignments written and others not
NoPartialBatch ==
  \A r \in 1..MaxReqs :
    (reqs[r].kind = "bulk" /\ reqs[r].ops # <<>>) => reqs[r].applied + reqs[r].missed = 0

\* no batch about to be answered as successful has an assignment that
\* matched no card
SuccessAppliedAll ==
  \A r \in 1..MaxReqs :
    (reqs[r].kind = "bulk" /\ reqs[r].ops = <<>>) => reqs[r].missed = 0

\* C14: a bulk reorder is one atomic batch: while it is in flight no state
\* holds some of its assignments applied and others not, and the batch that
\* is answered as successful has applied every assignment
C14_BulkReorderAtomic == NoPartialBatch /\ SuccessAppliedAll

\* C15: a move of a card to a list of another board than the card's is
\* answered with an error, and no such request changes any card
C15_CrossBoardMoveRejected ==
  /\ [](\A u \in Users, c \in cards, x \in lists :
          x.board # c.board => moveCardResp(u, c.id, x.id).status \in {400, 403})
  /\ [][\A u \in Users, c \in cards, x \in lists, o \in CardMoveOrders :
          (x.board # c.board /\ MoveCard(u, c.id, x.id, o)) => UNCHANGED cards]_vars

\* a card on one board, a list on the other, and the owner of both refused
C15_Witness ==
  \E c \in cards, x \in lists :
    /\ x.board # c.board
    /\ moveCardResp("u1", c.id, x.id) =
         R(400, "Target list not found or does not belong to the same board")

\* C16: a successful move of card c to list x sets its list to x and its
\* order to the order asked for, 0 when none is given, keeps its board, and
\* changes no other card and no list
C16_MoveFrame ==
  [][\A u \in Users, c \in cards, x \in lists, o \in CardMoveOrders :
       MoveCard(u, c.id, x.id, o) =>
         /\ {d.id : d \in cards'} = {d.id : d \in cards}
         /\ CardAfter(c).list = x.id
         /\ CardAfter(c).order = (IF o = <<>> THEN 0 ELSE o[1])
         /\ CardAfter(c).board = c.board
         /\ \A d \in cards : d.id # c.id => CardAfter(d) = d
         /\ lists' = lists]_vars

\* the first card, created at order 0, was moved with order 2 into a list
\* that holds another card, whose order the move left alone
C16_Witness ==
  \E c \in cards, d \in cards :
    c.id = 1 /\ c.order = 2 /\ d.id # c.id /\ d.list = c.list /\ d.order = 0

\* C17: there is at most one membership per (board, user), with invites in
\* flight together too; an invite for a user who has a membership on the
\* board is refused, and no such invite changes a membership
C17_UniqueMembership ==
  /\ [](/\ \A m \in members, n \in members :
             (m.board = n.board /\ m.user = n.user) => m = n
        /\ \A u \in Users, b \in boards, t \in Users :
             (MemberRows(b.id, t) # {} /\ inviteAuth(u, b.id) = Ok)
               => inviteResp(u, b.id, t) = R(400, "User is already a member of this board"))
  /\ [][\A r \in 1..MaxReqs :
          (MemberRows(reqs[r].board, reqs[r].user) # {} /\ InviteInsert(r))
            => UNCHANGED members]_vars

\* an invite is past its lookup while the user it names has been given a
\* membership by another request
C17_Witness ==
  \E r \in 1..MaxReqs :
    reqs[r].kind = "invite" /\ MemberRows(reqs[r].board, reqs[r].user) # {}

\* C18: no membership is stored for the owner of its board, and no
\* membership has a role outside admin, editor, viewer
C18_OwnerIsNoMembership ==
  \A m \in members : m.role \in InviteRoles /\ ~IsOwner(m.user, m.board)

\* role values a document may be given, one of them outside the enum
RoleValues == RoleEnum \cup {"guest"}

\* C19: deriving permissions fails for every role outside admin, editor,
\* viewer: no such role is saved, and no stored permission set is the
\* owner's set with canDeleteBoard, nor the defaults left under such a role
C19_InvalidRoleFails ==
  /\ \A role \in RoleValues \ InviteRoles : saveRejected(role)
  /\ \A m \in members :
       /\ ~m.permissions.canDeleteBoard
       /\ m.role \notin InviteRoles => m.permissions # DefaultPermissions

\* the two responses are the same denial, or are not two denials
SameDenial(ru, rv) == (Denied(ru) /\ Denied(rv)) => ru = rv

\* C20: for one request on one board, the user with no relationship to the
\* board and the active member without the capability are given the same
\* status and message
C20_DenialsIdentical ==
  \A b \in boards, u \in Users, v \in Users :
    (/\ b.owner # u /\ MemberRows(b.id, u) = {}
     /\ b.owner # v /\ HasActiveRow(v, b.id))
      => /\ SameDenial(inviteAuth(u, b.id), inviteAuth(v, b.id))
         /\ SameDenial(updateRoleAuth(u, b.id), updateRoleAuth(v, b.id))
         /\ SameDenial(removeAuth(u, b.id), removeAuth(v, b.id))
         /\ SameDenial(createListAuth(u, b.id), createListAuth(v, b.id))
         /\ \A x \in ListsOf(b.id) :
              /\ SameDenial(updateListAuth(u, x.id), updateListAuth(v, x.id))
              /\ SameDenial(deleteListAuth(u, x.id), deleteListAuth(v, x.id))
              /\ SameDenial(reorderListAuth(u, x.id), reorderListAuth(v, x.id))
              /\ SameDenial(createCardAuth(u, x.id), createCardAuth(v, x.id))
         /\ \A c \in CardsOn(b.id) :
              /\ SameDenial(updateCardAuth(u, c.id), updateCardAuth(v, c.id))
              /\ SameDenial(deleteCardAuth(u, c.id), deleteCardAuth(v, c.id))
              /\ SameDenial(moveCardAuth(u, c.id), moveCardAuth(v, c.id))
              /\ SameDenial(commentAuth(u, c.id), commentAuth(v, c.id))

(***************************************************************************)
(* C21 .. C30                                                              *)
(***************************************************************************)
\* C21: a reorder of a list to the order it has changes no list, and the
\* reorder that has just run, asked once more with the same list and the same
\* newOrder, leaves every list as the first call left it
C21_ReorderIdempotent ==
  /\ [](\A x \in lists, n \in ReorderOrders :
          x.order = n => reorderListWrites(lists, x.id, n) = lists)
  /\ [][\A u \in Users, x \in lists, n \in ReorderOrders :
          ReorderList(u, x.id, n) => reorderListWrites(lists', x.id, n) = lists']_vars

\* list 1 was moved from the front to position 1, list 2 took the front
C21_Witness ==
  \E x \in lists, y \in lists :
    x.id = 1 /\ x.order = 1 /\ y.id = 2 /\ y.order = 0 /\ y.board = x.board

\* C22: for an active membership of a non-owner on a private board, each
\* mutating request is allowed exactly when the stored permission of its
\* capability is true, whatever the role of the membership
C22_StoredPermissionDecides ==
  \A b \in boards, m \in members :
    (~b.isPublic /\ m.board = b.id /\ m.isActive /\ m.user # b.owner)
      => /\ Allowed(inviteAuth(m.user, b.id)) <=> m.permissions.canInviteMembers
         /\ Allowed(removeAuth(m.user, b.id)) <=> m.permissions.canRemoveMembers
         /\ \A x \in ListsOf(b.id) :
              /\ Allowed(updateListAuth(m.user, x.id)) <=> m.permissions.canEditLists
              /\ Allowed(deleteListAuth(m.user, x.id)) <=> m.permissions.canDeleteLists
              /\ Allowed(reorderListAuth(m.user, x.id)) <=> m.permissions.canEditLists
         /\ \A c \in CardsOn(b.id) :
              /\ Allowed(updateCardAuth(m.user, c.id)) <=> m.permissions.canEditCards
              /\ Allowed(deleteCardAuth(m.user, c.id)) <=> m.permissions.canDeleteCards
              /\ Allowed(moveCardAuth(m.user, c.id)) <=> m.permissions.canMoveCards
              /\ Allowed(commentAuth(m.user, c.id)) <=> m.permissions.canComment

\* C23: a reorder of list x to a newOrder at or beyond the largest order on
\* its board puts x behind every sibling, at the end position: its stored
\* order is not above the largest order the board had
C23_ReorderClampsToEnd ==
  [][\A u \in Users, x \in lists, n \in ReorderOrders :
       (/\ DistinctOrders(ListsOf(x.board))
        /\ n >= MaxOrderIn(ListsOf(x.board))
        /\ ReorderList(u, x.id, n))
         => /\ \A y \in ListsOf(x.board) \ {x} : After(y).order < After(x).order
            /\ After(x).order <= MaxOrderIn(ListsOf(x.board))]_vars

\* C24: the deletion of a list removes that list and leaves every other list
\* and every card as it was; the deletion of a card removes that card and
\* leaves every other card and every list as it was
C24_DeleteKeepsOrders ==
  /\ [][\A u \in Users, x \in lists :
          DeleteList(u, x.id) =>
            /\ {y.id : y \in lists'} = {y.id : y \in lists} \ {x.id}
            /\ \A y \in lists \ {x} : After(y).order = y.order
            /\ cards' = cards]_vars
  /\ [][\A u \in Users, c \in cards :
          DeleteCard(u, c.id) =>
            /\ {d.id : d \in cards'} = {d.id : d \in cards} \ {c.id}
            /\ \A d \in cards \ {c} : CardAfter(d).order = d.order
            /\ lists' = lists]_vars

\* the second of three lists and the second of three cards of a list are
\* gone, the orders 0 and 2 remain
C24_Witness ==
  /\ \E b \in BoardIds : {x.order : x \in ListsOf(b)} = {0, 2}
  /\ \E x \in lists : {c.order : c \in CardsOf(x.id)} = {0, 2}

\* C25: no request changes the owner of a board, the board of a list or the
\* board of a card: the fields the update handlers write leave them, whatever
\* the body holds, and no step of a board update, list update, list reorder,
\* card update, card move or bulk reorder stores another value
C25_ReferencesImmutable ==
  /\ [](/\ \A b \in boards, body \in BoardBodies :
             boardUpdateFields(b, body).owner = b.owner
        /\ \A x \in lists, body \in ListBodies : listUpdateFields(x, body).board = x.board
        /\ \A c \in cards, body \in CardBodies : cardUpdateFields(c, body).board = c.board)
  /\ [][/\ \A b \in boards, a \in boards' : a.id = b.id => a.owner = b.owner
        /\ \A x \in lists, a \in lists' : a.id = x.id => a.board = x.board
        /\ \A c \in cards, a \in cards' : a.id = c.id => a.board = c.board]_vars

\* the first board was made public, the first list was reordered to position
\* 1 and the first card was moved to the second list with order 1
C25_Witness ==
  /\ \E b \in boards : b.id = "b1" /\ b.isPublic
  /\ \E x \in lists : x.id = 1 /\ x.order = 1
  /\ \E c \in cards : c.id = 1 /\ c.list = 2 /\ c.order = 1

\* the document of boards' that has the id of b
BoardAfter(b) == CHOOSE a \in boards' : a.id = b.id

\* C26: every successful board update stores a lastActivity later than the
\* board had, and a created board is stored with a lastActivity later than
\* every timestamp the store held
C26_LastActivityAdvances ==
  /\ [](\A b \in boards, body \in BoardBodies :
          boardUpdateFields(b, body).lastActivity > b.lastActivity)
  /\ [][/\ \A u \in Users, b \in boards, body \in BoardBodies :
             UpdateBoard(u, b.id, body) => BoardAfter(b).lastActivity > b.lastActivity
        /\ \A a \in boards' :
             ~BoardExists(a.id) => \A b \in boards : a.lastActivity > b.lastActivity]_vars

\* C27: every card whose list exists has the board of that list, after any
\* sequence of card creations and card moves
C27_CardBoardIsListBoard ==
  \A c \in cards : ListExists(c.list) => c.board = ListOf(c.list).board

\* the first card was moved with order 2 and sits in the second list, while
\* the other list is on another board
C27_Witness ==
  \E c \in cards, x \in lists :
    /\ c.id = 1 /\ c.order = 2 /\ c.list = 2 /\ ListExists(c.list)
    /\ x.board # c.board

\* C28: when a board update changes the isPublic flag of a board, every
\* active member who is not its owner is allowed after the update exactly
\* the card requests and the member-management requests that were allowed
\* before it
C28_PublicFlagKeepsDecisions ==
  [][\A w \in Users, b \in boards, body \in BoardBodies :
       (UpdateBoard(w, b.id, body) /\ BoardAfter(b).isPublic # b.isPublic)
         => \A m \in members :
              (m.board = b.id /\ m.isActive /\ m.user # b.owner)
                => /\ Allowed(inviteAuth(m.user, b.id)) = Allowed(inviteAuth(m.user, b.id))'
                   /\ Allowed(updateRoleAuth(m.user, b.id))
                        = Allowed(updateRoleAuth(m.user, b.id))'
                   /\ Allowed(removeAuth(m.user, b.id)) = Allowed(removeAuth(m.user, b.id))'
                   /\ \A c \in CardsOn(b.id) :
                        /\ Allowed(updateCardAuth(m.user, c.id))
                             = Allowed(updateCardAuth(m.user, c.id))'
                        /\ Allowed(deleteCardAuth(m.user, c.id))
                             = Allowed(deleteCardAuth(m.user, c.id))'
                        /\ Allowed(moveCardAuth(m.user, c.id))
                             = Allowed(moveCardAuth(m.user, c.id))'
                        /\ Allowed(commentAuth(m.user, c.id))
                             = Allowed(commentAuth(m.user, c.id))']_vars

\* the owner of board b, or an active member of b whose role is admin
MayManageRoles(u, b) ==
  IsOwner(u, b) \/ \E m \in MemberRows(b, u) : m.isActive /\ m.role = "admin"

\* C29: a role update asked by anyone but the owner of the board or an active
\* member with role admin is refused; a role update addressed to a board
\* writes no membership of another board; and every step that changes the
\* role of a membership is a role update on its board by such a user, which
\* changes that membership alone
C29_RoleChangedByOwnerOrAdmin ==
  /\ [](\A b \in boards, u \in Users :
          /\ ~MayManageRoles(u, b.id) => Denied(updateRoleAuth(u, b.id))
          /\ \A m \in members, r \in BoardRoles :
               m.board # b.id => memberRoleUpdate(members, b.id, m, r) = members)
  /\ [][\A m \in members, n \in members' :
          (n.board = m.board /\ n.user = m.user /\ n.role # m.role)
            => /\ \E u \in Users :
                    MayManageRoles(u, m.board) /\ UpdateMemberRole(u, m.board, m, n.role)
               /\ members' = (members \ {m}) \cup {[m EXCEPT !.role = n.role]}]_vars

\* on the first board u3 was invited as admin and re-roled to viewer while
\* u2 holds a soft-disabled membership, and the second board has members
C29_Witness ==
  /\ \E m \in members : /\ m.board = "b1" /\ m.user = "u3" /\ m.role = "viewer"
                         /\ m.permissions = AdminPermissions
  /\ \E m \in members : m.board = "b1" /\ m.user = "u2" /\ ~m.isActive
  /\ \E m \in members : m.board = "b2"

\* C30: every membership whose stored permission canDeleteBoard is true is
\* the membership of the owner of its board, after any sequence of board
\* creations, invites, role updates and member removals
C30_DeleteBoardIsOwnersOnly ==
  \A m \in members : m.permissions.canDeleteBoard => IsOwner(m.user, m.board)

\* on the second board the owner u2 holds canDeleteBoard, and u3, saved as
\* viewer and re-roled to admin, does not
C30_Witness ==
  /\ \E m \in members : /\ m.board = "b2" /\ m.user = "u3" /\ m.role = "admin"
                         /\ m.permissions = ViewerPermissions
  /\ \E m \in members : /\ m.board = "b2" /\ m.user = "u2"
                         /\ m.permissions.canDeleteBoard

====
